---- MODULE Spec2Model ----
(***************************************************************************)
(* FileMetaData of parquet2 (src/metadata/file_metadata.rs): the aggregate *)
(* constructor, the accessors schema() and column_order(i), and the        *)
(* lowering into_thrift() to the wire struct parquet_format::FileMetaData. *)
(* The schema tree, the schema descriptor, the row group translation and   *)
(* the lifting of a wire struct back into a FileMetaData live in other     *)
(* files of the crate and are modelled from the specification.             *)
(***************************************************************************)
EXTENDS Integers, Sequences, FiniteSets, TLC

VARIABLES pc, args, fmd, ret, wire, lifted

vars == <<pc, args, fmd, ret, wire, lifted>>

(* ------------------------------ bounds -------------------------------- *)

MaxRowGroups == 2
MaxKV == 2
MaxOrders == 2
MaxIndex == 3

(* ---------------------- Option<T> and Result<T> ------------------------ *)

None == <<>>
Some(x) == <<x>>
IsSome(o) == Len(o) = 1
IsNone(o) == Len(o) = 0
Unwrap(o) == o[1]

Ok(x) == [ok |-> TRUE, val |-> x]
Err(e) == [ok |-> FALSE, err |-> e]

(* outcome of a call that returns a plain value: it returns or it panics *)
Returned(x) == [kind |-> "Ret", val |-> x]
Panicked == [kind |-> "Panic"]

(* the caller's record of its last accessor call: operation, index, outcome *)
Call(op, i, out) == [op |-> op, arg |-> i, out |-> out]
NoCall == [op |-> "none", arg |-> 0, out |-> [kind |-> "None"]]

(* SeqsUpTo(S, n): the Vec<S> values of length at most n *)
SeqsUpTo(S, n) == UNION {[1..k -> S] : k \in 0..n}

(* ------------------------------ ColumnOrder ---------------------------- *)

Undefined == [order |-> "Undefined", sort |-> "none"]
TypeDefinedOrder(s) == [order |-> "TypeDefinedOrder", sort |-> s]
ColumnOrders == {Undefined, TypeDefinedOrder("Signed")}

(* ------------------------------ schema tree ---------------------------- *)

Primitive(name, shape) ==
    [node |-> "Primitive", name |-> name, shape |-> shape, fields |-> <<>>]
Group(name, shape, fields) ==
    [node |-> "Group", name |-> name, shape |-> shape, fields |-> fields]

SchemaTrees ==
    { Group("root", "wire", <<Primitive("a", "wire"), Primitive("b", "wire")>>),
      Group("root", "wire",
            <<Primitive("a", "wire"),
              Group("g", "wire", <<Primitive("c", "wire")>>)>>),
      Group("root", "wire",
            <<Primitive("a", "wire"),
              Group("g", "wire", <<Primitive("c", "nowire")>>)>>) }

RECURSIVE PreOrder(_)
(* the nodes of a tree in pre-order: a node, then its fields left to right *)
PreOrder(t) ==
    LET RECURSIVE Cat(_)
        Cat(k) == IF k > Len(t.fields) THEN <<>>
                  ELSE PreOrder(t.fields[k]) \o Cat(k + 1)
    IN <<t>> \o Cat(1)

SelectPrimitive(n) == n.node = "Primitive"

Leaves(t) == SelectSeq(PreOrder(t), SelectPrimitive)

SchemaDescriptor_new(t) == [schema |-> t, leaves |-> Leaves(t)]

root_schema(sd) == sd.schema

(* ---------------- wire schema grammar (schema to and from wire) -------- *)

InWireGrammar(n) == n.shape = "wire"

SchemaElement(n) ==
    [name |-> n.name,
     num_children |-> IF n.node = "Group" THEN Some(Len(n.fields)) ELSE None]

NotRepresentable(n) == [kind |-> "NotRepresentable", node |-> n.name]

(* flattens the tree in pre-order; fails on the first node that has no *)
(* wire representation, naming it                                      *)
to_thrift(t) ==
    LET nodes == PreOrder(t)
        bad == {k \in 1..Len(nodes) : ~InWireGrammar(nodes[k])}
    IN IF bad # {}
       THEN Err(NotRepresentable(nodes[CHOOSE k \in bad : \A j \in bad : k <= j]))
       ELSE Ok([k \in 1..Len(nodes) |-> SchemaElement(nodes[k])])

RECURSIVE from_thrift_helper(_, _)
(* rebuilds the node that starts at elements[i]; next is the index after it *)
from_thrift_helper(elements, i) ==
    LET e == elements[i]
        RECURSIVE Fields(_, _, _)
        Fields(k, j, acc) ==
            IF k = 0 THEN [next |-> j, fields |-> acc]
            ELSE LET r == from_thrift_helper(elements, j)
                 IN Fields(k - 1, r.next, Append(acc, r.tree))
    IN IF IsNone(e.num_children)
       THEN [next |-> i + 1, tree |-> Primitive(e.name, "wire")]
       ELSE LET fs == Fields(Unwrap(e.num_children), i + 1, <<>>)
            IN [next |-> fs.next, tree |-> Group(e.name, "wire", fs.fields)]

from_thrift(elements) == from_thrift_helper(elements, 1).tree

(* ------------------------------ RowGroupMetaData ----------------------- *)

ColumnChunkMetaData(path) == [path |-> path]

RowGroupMetaData(num_rows, total_byte_size, columns) ==
    [num_rows |-> num_rows, total_byte_size |-> total_byte_size,
     columns |-> columns]

RowGroups ==
    { RowGroupMetaData(5, 40, <<ColumnChunkMetaData("a"), ColumnChunkMetaData("b")>>),
      RowGroupMetaData(3, 24, <<ColumnChunkMetaData("b"), ColumnChunkMetaData("a")>>) }

ColumnChunk_to_thrift(c) == [meta_data |-> [path_in_schema |-> <<c.path>>]]

ColumnChunk_from_thrift(c) == ColumnChunkMetaData(c.meta_data.path_in_schema[1])

RowGroup_to_thrift(rg) ==
    [columns |-> [k \in 1..Len(rg.columns) |-> ColumnChunk_to_thrift(rg.columns[k])],
     total_byte_size |-> rg.total_byte_size,
     num_rows |-> rg.num_rows]

RowGroup_from_thrift(rg) ==
    RowGroupMetaData(rg.num_rows, rg.total_byte_size,
        [k \in 1..Len(rg.columns) |-> ColumnChunk_from_thrift(rg.columns[k])])

(* ------------------------------ FileMetaData --------------------------- *)

KeyValue(key, value) == [key |-> key, value |-> Some(value)]

(* mutant: the constructor normalises an empty column_orders list to absent *)
FileMetaData_new_NormalizesOrders(version, num_rows, created_by, row_groups, key_value_metadata, schema_descr, column_orders) ==
    [version |-> version,
     num_rows |-> num_rows,
     created_by |-> created_by,
     row_groups |-> row_groups,
     key_value_metadata |-> key_value_metadata,
     schema_descr |-> schema_descr,
     column_orders |-> IF column_orders = Some(<<>>) THEN None ELSE column_orders]

FileMetaData_new(version, num_rows, created_by, row_groups, key_value_metadata, schema_descr, column_orders) ==
    [version |-> version,
     num_rows |-> num_rows,
     created_by |-> created_by,
     row_groups |-> row_groups,
     key_value_metadata |-> key_value_metadata,
     schema_descr |-> schema_descr,
     column_orders |-> column_orders]

(* mutant: schema() hands out the first leaf instead of the root *)
schema_FirstLeaf(self) == self.schema_descr.leaves[1]

schema(self) == root_schema(self.schema_descr)

(* mutant: column_orders is unwrapped instead of defaulted *)
column_order_Unwraps(self, i) ==
    IF IsNone(self.column_orders) THEN Panicked
    ELSE LET data == Unwrap(self.column_orders)
         IN IF i + 1 \in DOMAIN data THEN Returned(data[i + 1]) ELSE Panicked

(* mutant: every valid index reads the first entry *)
column_order_ReadsFirst(self, i) ==
    IF IsNone(self.column_orders) THEN Returned(Undefined)
    ELSE LET data == Unwrap(self.column_orders)
         IN IF i + 1 \in DOMAIN data THEN Returned(data[1]) ELSE Panicked

(* Option::map(|data| data[i]).unwrap_or(Undefined): a Vec index out of *)
(* bounds panics                                                         *)
column_order(self, i) ==
    IF IsNone(self.column_orders) THEN Returned(Undefined)
    ELSE LET data == Unwrap(self.column_orders)
         IN IF i + 1 \in DOMAIN data THEN Returned(data[i + 1]) ELSE Panicked

(* the wire struct with the given fields, for the mutants of into_thrift *)
WireWith(self, elements, version, row_groups, key_value_metadata, column_orders) ==
    [version |-> version,
     schema |-> elements,
     num_rows |-> self.num_rows,
     row_groups |-> row_groups,
     key_value_metadata |-> key_value_metadata,
     created_by |-> self.created_by,
     column_orders |-> column_orders]

WireRowGroups(self) ==
    [k \in 1..Len(self.row_groups) |-> RowGroup_to_thrift(self.row_groups[k])]

(* mutant: a schema that fails to convert is replaced by the empty schema *)
into_thrift_SchemaDefault(self) ==
    LET s == to_thrift(self.schema_descr.schema)
    IN Ok(WireWith(self, IF s.ok THEN s.val ELSE <<>>, self.version,
                   WireRowGroups(self), self.key_value_metadata, None))

(* mutant: an empty key_value_metadata list is written as absent *)
into_thrift_EmptyKVDropped(self) ==
    LET s == to_thrift(self.schema_descr.schema)
    IN IF ~s.ok THEN Err(s.err)
       ELSE Ok(WireWith(self, s.val, self.version, WireRowGroups(self),
                        IF self.key_value_metadata = Some(<<>>) THEN None
                        ELSE self.key_value_metadata,
                        None))

(* mutant: the row groups are written last to first *)
into_thrift_RowGroupsReversed(self) ==
    LET s == to_thrift(self.schema_descr.schema)
        n == Len(self.row_groups)
    IN IF ~s.ok THEN Err(s.err)
       ELSE Ok(WireWith(self, s.val, self.version,
                        [k \in 1..n |-> RowGroup_to_thrift(self.row_groups[n + 1 - k])],
                        self.key_value_metadata, None))

(* mutant: column_orders is written through *)
into_thrift_EmitsColumnOrders(self) ==
    LET s == to_thrift(self.schema_descr.schema)
    IN IF ~s.ok THEN Err(s.err)
       ELSE Ok(WireWith(self, s.val, self.version, WireRowGroups(self),
                        self.key_value_metadata, self.column_orders))

(* mutant: the writer stamps format version 1 whatever self.version is *)
into_thrift_FixedVersion(self) ==
    LET s == to_thrift(self.schema_descr.schema)
    IN IF ~s.ok THEN Err(s.err)
       ELSE Ok(WireWith(self, s.val, 1, WireRowGroups(self),
                        self.key_value_metadata, None))

into_thrift(self) ==
    LET s == to_thrift(schema(self))
    IN IF ~s.ok THEN Err(s.err)
       ELSE Ok([version |-> self.version,
                schema |-> s.val,
                num_rows |-> self.num_rows,
                row_groups |-> [k \in 1..Len(self.row_groups) |->
                                   RowGroup_to_thrift(self.row_groups[k])],
                key_value_metadata |-> self.key_value_metadata,
                created_by |-> self.created_by,
                column_orders |-> None])

(* lifting a wire struct back into the domain object, field for field *)
try_from_thrift(w) ==
    Ok(FileMetaData_new(
        w.version,
        w.num_rows,
        w.created_by,
        [k \in 1..Len(w.row_groups) |-> RowGroup_from_thrift(w.row_groups[k])],
        w.key_value_metadata,
        SchemaDescriptor_new(from_thrift(w.schema)),
        w.column_orders))

(* ------------------------------ inputs --------------------------------- *)

Versions == {1, 2}
NumRows == {10, 999}
CreatedBys == {None, Some(""), Some("test")}
KeyValues == {KeyValue("k", "v1"), KeyValue("k", "v2")}

Arguments ==
    [version : Versions,
     num_rows : NumRows,
     created_by : CreatedBys,
     row_groups : SeqsUpTo(RowGroups, MaxRowGroups),
     key_value_metadata : {None} \cup {Some(kv) : kv \in SeqsUpTo(KeyValues, MaxKV)},
     schema_descr : {SchemaDescriptor_new(t) : t \in SchemaTrees},
     column_orders : {None} \cup {Some(co) : co \in SeqsUpTo(ColumnOrders, MaxOrders)}]

(* ------------------------------ state machine -------------------------- *)

Init ==
    /\ pc = "start"
    /\ args \in Arguments
    /\ fmd = None
    /\ ret = NoCall
    /\ wire = None
    /\ lifted = None

New ==
    /\ pc = "start"
    /\ fmd' = Some(FileMetaData_new(args.version, args.num_rows, args.created_by,
                                     args.row_groups, args.key_value_metadata,
                                     args.schema_descr, args.column_orders))
    /\ pc' = "built"
    /\ UNCHANGED <<args, ret, wire, lifted>>

Schema ==
    /\ pc = "built"
    /\ ret' = Call("schema", 0, Returned(schema(Unwrap(fmd))))
    /\ UNCHANGED <<pc, args, fmd, wire, lifted>>

ColumnOrder ==
    /\ pc = "built"
    /\ \E i \in 0..MaxIndex :
          LET out == column_order(Unwrap(fmd), i)
          IN /\ ret' = Call("column_order", i, out)
             /\ pc' = IF out.kind = "Panic" THEN "panicked" ELSE "built"
    /\ UNCHANGED <<args, fmd, wire, lifted>>

(* into_thrift takes self by value: fmd stays as the record of the value *)
(* that was consumed, and no accessor runs on it afterwards              *)
IntoThrift ==
    /\ pc = "built"
    /\ wire' = Some(into_thrift(Unwrap(fmd)))
    /\ pc' = "lowered"
    /\ UNCHANGED <<args, fmd, ret, lifted>>

TryFromThrift ==
    /\ pc = "lowered"
    /\ Unwrap(wire).ok
    /\ lifted' = Some(try_from_thrift(Unwrap(wire).val))
    /\ pc' = "lifted"
    /\ UNCHANGED <<args, fmd, ret, wire>>

Next == New \/ Schema \/ ColumnOrder \/ IntoThrift \/ TryFromThrift

Spec == Init /\ [][Next]_vars

(* ------------------------------ properties ----------------------------- *)

self == Unwrap(fmd)
Lowered == pc \in {"lowered", "lifted"}
LoweredOk == Lowered /\ Unwrap(wire).ok
w == Unwrap(wire).val

RECURSIVE SumRows(_)
SumRows(rgs) == IF rgs = <<>> THEN 0 ELSE Head(rgs).num_rows + SumRows(Tail(rgs))

RowCounts(rgs) == [k \in 1..Len(rgs) |-> rgs[k].num_rows]

(* C1: with column_orders present (the empty list included) and an index *)
(* i >= its length, column_order(i) returns Undefined and does not panic. *)
C1_OutOfRangeIsUndefined ==
    (/\ ret.op = "column_order"
     /\ IsSome(self.column_orders)
     /\ ret.arg >= Len(Unwrap(self.column_orders)))
    => (ret.out.kind = "Ret" /\ ret.out.val = Undefined)

(* C2: with column_orders absent, column_order(i) returns Undefined for *)
(* every index i.                                                        *)
C2_AbsentIsUndefined ==
    (ret.op = "column_order" /\ IsNone(self.column_orders))
    => (ret.out.kind = "Ret" /\ ret.out.val = Undefined)

C2_Witness ==
    /\ ret.op = "column_order"
    /\ IsNone(self.column_orders)
    /\ ret.arg = MaxIndex
    /\ ret.out = Returned(Undefined)

(* C3: with column_orders present and 0 <= i < its length, column_order(i) *)
(* returns exactly the i-th entry of column_orders.                        *)
C3_InRangeIsEntry ==
    (/\ ret.op = "column_order"
     /\ IsSome(self.column_orders)
     /\ ret.arg < Len(Unwrap(self.column_orders)))
    => (ret.out.kind = "Ret" /\ ret.out.val = Unwrap(self.column_orders)[ret.arg + 1])

C3_Witness ==
    /\ ret.op = "column_order"
    /\ self.column_orders = Some(<<Undefined, TypeDefinedOrder("Signed")>>)
    /\ ret.arg = 1
    /\ ret.out = Returned(TypeDefinedOrder("Signed"))

(* C4: into_thrift returns an error exactly when the conversion of the    *)
(* schema root to the wire grammar fails, the error is that conversion's  *)
(* error, and otherwise it succeeds whatever the other fields hold.       *)
C4_ErrorIffSchemaFails ==
    Lowered =>
        LET s == to_thrift(self.schema_descr.schema)
        IN /\ Unwrap(wire).ok <=> s.ok
           /\ ~s.ok => Unwrap(wire) = Err(s.err)

C4_Witness ==
    /\ pc = "lowered"
    /\ ~Unwrap(wire).ok
    /\ Unwrap(wire).err = [kind |-> "NotRepresentable", node |-> "c"]
    /\ self.row_groups # <<>>

(* C5: when into_thrift succeeds, the wire version, num_rows, created_by *)
(* and key_value_metadata equal the FileMetaData's fields: absent stays  *)
(* absent, present-but-empty stays so, pairs keep order and duplicates.  *)
C5_ScalarFieldsMapped ==
    LoweredOk =>
        /\ w.version = self.version
        /\ w.num_rows = self.num_rows
        /\ w.created_by = self.created_by
        /\ w.key_value_metadata = self.key_value_metadata

C5_Witness ==
    /\ LoweredOk
    /\ self.created_by = Some("")
    /\ self.key_value_metadata = Some(<<>>)
    /\ w.key_value_metadata = Some(<<>>)
    /\ w.created_by = Some("")

(* C6: when into_thrift succeeds, the wire row_groups has the length of *)
(* row_groups and wire row group i is the translation of row group i.   *)
C6_RowGroupsInOrder ==
    LoweredOk =>
        /\ Len(w.row_groups) = Len(self.row_groups)
        /\ \A k \in 1..Len(self.row_groups) :
              w.row_groups[k] = RowGroup_to_thrift(self.row_groups[k])

C6_Witness ==
    /\ LoweredOk
    /\ Len(self.row_groups) = 2
    /\ self.row_groups[1] # self.row_groups[2]
    /\ w.row_groups[1].num_rows = 5
    /\ w.row_groups[2].num_rows = 3

(* C7: when into_thrift succeeds, the wire column_orders is absent, *)
(* whatever the FileMetaData's column_orders was.                    *)
C7_ColumnOrdersOmitted ==
    LoweredOk => w.column_orders = None

C7_Witness ==
    /\ LoweredOk
    /\ self.column_orders = Some(<<TypeDefinedOrder("Signed")>>)
    /\ w.column_orders = None

C9_RoundTrip ==
    pc = "lifted" =>
        /\ Unwrap(lifted).ok
        /\ LET back == Unwrap(lifted).val
           IN /\ back.version = self.version
              /\ back.num_rows = self.num_rows
              /\ back.created_by = self.created_by
              /\ RowCounts(back.row_groups) = RowCounts(self.row_groups)
              /\ back.column_orders = None

C9_Witness ==
    /\ pc = "lifted"
    /\ self.version = 2
    /\ self.num_rows = 10
    /\ self.created_by = Some("test")
    /\ RowCounts(self.row_groups) = <<5, 5>>
    /\ IsNone(self.key_value_metadata)
    /\ IsSome(self.column_orders)
    /\ Unwrap(lifted).val.column_orders = None

====
